---- MODULE Spec2Model ----
(***************************************************************************)
(* LHM: a managed block of host entries inside /etc/hosts.                 *)
(*                                                                         *)
(* Model of src/main.py: HostsFileManager (block codec and atomic file     *)
(* writer), HostsModel (editable entry list) and AppEngine (session        *)
(* controller).  A Python str is a sequence of one-character strings, a    *)
(* Python list is a sequence, a HostEntry object is a cell of the heap.    *)
(***************************************************************************)
EXTENDS Integers, Sequences, FiniteSets, TLC

(***************************************************************************)
(* Bounds of the model.                                                    *)
(***************************************************************************)
MaxLines == 3
MaxRows == 3
MaxOps == 4
MaxRounds == 1
MaxPieces == 4

(***************************************************************************)
(* Python str helpers.                                                     *)
(***************************************************************************)
\* F at the value of v: an operator argument is evaluated wherever the body
\* uses it, a bound variable is evaluated once
Once(v, F(_)) == CHOOSE r \in {F(x) : x \in {v}} : TRUE

NL == "\n"
CR == "\r"
FF == "\f"
TAB == "\t"
SP == " "
HASH == "#"

\* the characters str.strip()/str.split() treat as whitespace
IsSpace(c) == c \in {SP, TAB, NL, CR, FF}

Last(s) == s[Len(s)]

\* "".join(list)
RECURSIVE Join(_)
Join(ls) == IF ls = <<>> THEN <<>> ELSE Head(ls) \o Join(Tail(ls))

\* s.endswith("\n")
EndsWithNL(s) == Len(s) > 0 /\ Last(s) = NL

\* s.rstrip("\n"): every trailing "\n" is removed, nothing else
RstripNL(s) ==
    LET keep == {i \in 1..Len(s) : s[i] # NL}
        n == IF keep = {} THEN 0 ELSE CHOOSE i \in keep : \A j \in keep : j <= i
    IN SubSeq(s, 1, n)

\* s.lstrip()
Lstrip(s) ==
    LET keep == {i \in 1..Len(s) : ~IsSpace(s[i])}
    IN IF keep = {} THEN <<>>
       ELSE SubSeq(s, CHOOSE i \in keep : \A j \in keep : i <= j, Len(s))

\* s.rstrip()
Rstrip(s) ==
    LET keep == {i \in 1..Len(s) : ~IsSpace(s[i])}
    IN IF keep = {} THEN <<>>
       ELSE SubSeq(s, 1, CHOOSE i \in keep : \A j \in keep : j <= i)

\* s.strip()
Strip(s) == Lstrip(Rstrip(s))

\* text.splitlines(keepends=True): a line ends after "\n", after "\r\n",
\* after a "\r" that no "\n" follows and after a form feed; an unterminated
\* tail is a last line
IsLineEnd(text, i) ==
    \/ text[i] \in {NL, FF}
    \/ text[i] = CR /\ ~(i < Len(text) /\ text[i + 1] = NL)

\* Path.read_text(): the file is opened in text mode with universal newlines,
\* so "\r\n" and a lone "\r" in the file both arrive as "\n"
read_text(data) ==
    LET kept(i) == ~(data[i] = CR /\ i < Len(data) /\ data[i + 1] = NL)
        at == SelectSeq([i \in 1..Len(data) |-> i], kept)
    IN [n \in 1..Len(at) |-> IF data[at[n]] = CR THEN NL ELSE data[at[n]]]

splitlines(text) ==
    LET ends == {i \in 1..Len(text) : IsLineEnd(text, i)}
        stops == ends \cup (IF Len(text) > 0 THEN {Len(text)} ELSE {})
        start(e) == IF \E k \in stops : k < e
                    THEN 1 + CHOOSE k \in stops :
                                 k < e /\ \A m \in stops : m < e => m <= k
                    ELSE 1
        nth[n \in 1..Cardinality(stops)] ==
            CHOOSE e \in stops : Cardinality({k \in stops : k <= e}) = n
    IN [n \in 1..Cardinality(stops) |-> SubSeq(text, start(nth[n]), nth[n])]

\* s.split(): the maximal runs of non-whitespace characters, in order
split(s) ==
    LET firsts == {i \in 1..Len(s) :
                      ~IsSpace(s[i]) /\ (i = 1 \/ IsSpace(s[i - 1]))}
        stop(b) == CHOOSE e \in b..Len(s) :
                      /\ \A k \in b..e : ~IsSpace(s[k])
                      /\ (e = Len(s) \/ IsSpace(s[e + 1]))
        nth[n \in 1..Cardinality(firsts)] ==
            CHOOSE b \in firsts : Cardinality({k \in firsts : k <= b}) = n
    IN [n \in 1..Cardinality(firsts) |-> SubSeq(s, nth[n], stop(nth[n]))]

\* " ".join(parts)
RECURSIVE JoinSp(_)
JoinSp(parts) ==
    IF parts = <<>> THEN <<>>
    ELSE IF Len(parts) = 1 THEN parts[1]
    ELSE parts[1] \o <<SP>> \o JoinSp(Tail(parts))

(***************************************************************************)
(* HostsFileManager: markers and the entry-line parser.                    *)
(***************************************************************************)
BEGIN_MARKER ==
    <<"#", " ", "=", "=", "=", " ", "B", "E", "G", "I", "N", " ",
      "M", "A", "N", "A", "G", "E", "D", " ", "B", "Y", " ",
      "L", "H", "M", " ", "=", "=", "=">>

END_MARKER ==
    <<"#", " ", "=", "=", "=", " ", "E", "N", "D", " ",
      "M", "A", "N", "A", "G", "E", "D", " ", "B", "Y", " ",
      "L", "H", "M", " ", "=", "=", "=">>

HostEntry(enabled, ip, hosts) == [enabled |-> enabled, ip |-> ip, hosts |-> hosts]

HostsFileState(pre, post) == [pre_lines |-> pre, post_lines |-> post]

\* the parse result that is "no entry" (Python None)
None == [none |-> TRUE]

IsDigit(c) == c \in {"0", "1", "2", "3", "4", "5", "6", "7", "8", "9"}

IsHexOrColon(c) ==
    \/ IsDigit(c)
    \/ c \in {"a", "b", "c", "d", "e", "f", "A", "B", "C", "D", "E", "F", ":"}

\* \d{1,3}(?:\.\d{1,3}){3}
IsDottedQuad(s) ==
    LET dots == {i \in 1..Len(s) : s[i] = "."}
        cuts == dots \cup {0, Len(s) + 1}
        groupOk(a) ==
            LET b == CHOOSE k \in cuts : k > a /\ \A m \in cuts : m > a => k <= m
            IN /\ b - a - 1 \in 1..3
               /\ \A k \in (a + 1)..(b - 1) : IsDigit(s[k])
    IN /\ Cardinality(dots) = 3
       /\ \A a \in cuts \ {Len(s) + 1} : groupOk(a)

\* _IP_RE.match(ip) is not None
IP_RE(s) ==
    \/ IsDottedQuad(s)
    \/ Len(s) > 0 /\ \A i \in 1..Len(s) : IsHexOrColon(s[i])

\* s.partition("#")[0].rstrip() when "#" is in s, else s
strip_inline_comment(s) ==
    LET hs == {i \in 1..Len(s) : s[i] = HASH}
    IN IF hs = {} THEN s
       ELSE Rstrip(SubSeq(s, 1, (CHOOSE i \in hs : \A j \in hs : i <= j) - 1))

\* a variant that takes a lone address for an entry
parse_entry_line_lone(line) ==
    LET s0 == Strip(line)
        disabled == Len(s0) > 0 /\ s0[1] = HASH
        s1 == IF disabled THEN Lstrip(Tail(s0)) ELSE s0
        s2 == Strip(strip_inline_comment(s1))
        parts == split(s2)
    IN IF s0 = <<>> THEN None
       ELSE IF s1 = <<>> THEN None
       ELSE IF s2 = <<>> THEN None
       ELSE IF ~IP_RE(parts[1]) THEN None
       ELSE HostEntry(~disabled, parts[1], JoinSp(Tail(parts)))

parse_entry_line(line) ==
    LET s0 == Strip(line)
        disabled == Len(s0) > 0 /\ s0[1] = HASH
        s1 == IF disabled THEN Lstrip(Tail(s0)) ELSE s0
        s2 == Strip(strip_inline_comment(s1))
        parts == split(s2)
    IN IF s0 = <<>> THEN None
       ELSE IF s1 = <<>> THEN None
       ELSE IF s2 = <<>> THEN None
       ELSE IF Len(parts) < 2 THEN None
       ELSE IF ~IP_RE(parts[1]) THEN None
       ELSE HostEntry(~disabled, parts[1], JoinSp(Tail(parts)))

\* the lines of the managed block: begin marker, one line per entry, end marker
\* a variant that renders a disabled entry like an enabled one
render_line_on(e) == Rstrip(e.ip \o <<TAB>> \o e.hosts) \o <<NL>>

render_line(e) ==
    LET line == Rstrip(e.ip \o <<TAB>> \o e.hosts)
    IN (IF e.enabled THEN line ELSE <<HASH>> \o line) \o <<NL>>

render_managed_block(es) ==
    <<BEGIN_MARKER \o <<NL>>>>
        \o [i \in 1..Len(es) |-> render_line(es[i])]
        \o <<END_MARKER \o <<NL>>>>

\* index of the first line that is the begin marker, 0 when there is none
\* (the code's -1)
begin_idx(lines) ==
    LET hit == {i \in 1..Len(lines) : RstripNL(lines[i]) = BEGIN_MARKER}
    IN IF hit = {} THEN 0 ELSE CHOOSE i \in hit : \A j \in hit : i <= j

\* index of the first end marker after the begin marker, 0 when there is none
end_idx(lines) ==
    LET b == begin_idx(lines)
        hit == {j \in (b + 1)..Len(lines) : RstripNL(lines[j]) = END_MARKER}
    IN IF b = 0 \/ hit = {} THEN 0 ELSE CHOOSE j \in hit : \A k \in hit : j <= k

\* the entries of the managed lines that parse, in order
RECURSIVE parse_lines(_)
parse_lines(ls) ==
    IF ls = <<>> THEN <<>>
    ELSE LET e == parse_entry_line(Head(ls))
         IN (IF e = None THEN <<>> ELSE <<e>>) \o parse_lines(Tail(ls))

\* load_managed_block on a file holding data: [entries, state]
load_managed_block(data) ==
    LET text == read_text(data)
        scan(lines) ==
            LET b == begin_idx(lines)
                e == end_idx(lines)
            IN IF b = 0 \/ e = 0 \/ e < b
               THEN [entries |-> <<>>, state |-> HostsFileState(lines, <<>>)]
               ELSE [entries |-> parse_lines(SubSeq(lines, b + 1, e - 1)),
                     state |-> HostsFileState(SubSeq(lines, 1, b - 1),
                                              SubSeq(lines, e + 1, Len(lines)))]
    IN Once(splitlines(text), scan)

build_content(st, es) ==
    LET pre0 == st.pre_lines
        pre1 == IF pre0 # <<>> /\ ~EndsWithNL(Last(pre0))
                THEN [pre0 EXCEPT ![Len(pre0)] = @ \o <<NL>>]
                ELSE pre0
        pre2 == IF pre1 # <<>> /\ Strip(Last(pre1)) # <<>>
                THEN Append(pre1, <<NL>>)
                ELSE pre1
    IN Join(pre2 \o render_managed_block(es) \o st.post_lines)

(***************************************************************************)
(* HostsModel: the editable list.  A list model is [heap, entries]: heap   *)
(* is the sequence of live HostEntry objects, entries the list _entries    *)
(* of references (indices into heap).  Rows are numbered from 0 as in the  *)
(* code.                                                                   *)
(***************************************************************************)
_is_empty_entry(e) == Strip(e.ip) = <<>> /\ Strip(e.hosts) = <<>>

\* a new HostEntry object is the next cell of the heap
_ensure_trailing_empty(m) ==
    IF m.entries = <<>> \/ ~_is_empty_entry(m.heap[Last(m.entries)])
    THEN [heap |-> Append(m.heap, HostEntry(TRUE, <<>>, <<>>)),
          entries |-> Append(m.entries, Len(m.heap) + 1)]
    ELSE m

\* a variant that pops no row
_prune_empty_rows_none(m) == m

\* every empty row but the last one is popped
_prune_empty_rows(m) ==
    LET n == Len(m.entries)
        keep(id) == ~_is_empty_entry(m.heap[id])
    IN IF n = 0 THEN m
       ELSE [m EXCEPT !.entries =
                 SelectSeq(SubSeq(m.entries, 1, n - 1), keep) \o <<m.entries[n]>>]

_row_ok(m, row) == 0 <= row /\ row < Len(m.entries)

\* setData(index(row), value, role): [model, changed]; the HostEntry object
\* of the row is assigned in place
setData(m, row, role, value) ==
    LET id == m.entries[row + 1]
        e == m.heap[id]
        changed == e[role] # value
        m1 == [m EXCEPT !.heap[id][role] = value]
        m2 == IF row = Len(m1.entries) - 1 /\ ~_is_empty_entry(m1.heap[id])
              THEN _ensure_trailing_empty(m1)
              ELSE m1
    IN IF changed
       THEN [model |-> _prune_empty_rows(m2), changed |-> TRUE]
       ELSE [model |-> m, changed |-> FALSE]

\* entries_snapshot(): the values of the new HostEntry objects it returns
entries_snapshot(m) ==
    LET keep(id) == ~_is_empty_entry(m.heap[id])
        ids == SelectSeq(m.entries, keep)
    IN [i \in 1..Len(ids) |-> m.heap[ids[i]]]

\* set_entries(entries): _entries becomes a new list of the same objects
set_entries(h, ids) == _ensure_trailing_empty([heap |-> h, entries |-> ids])

(***************************************************************************)
(* State.                                                                  *)
(***************************************************************************)
VARIABLES
    file,           \* the text of the target path /etc/hosts
    heap,           \* the live HostEntry objects
    _entries,       \* HostsModel._entries: references into heap
    _snapshot,      \* AppEngine._snapshot: references into heap
    _state,         \* AppEngine._state: the HostsFileState read at load
    _dirty,         \* AppEngine._dirty
    errorOccurred,  \* the errorOccurred signal of the latest handler, "" if none
    exc,            \* the exception raised by the step or handler, NoExc if none
    captured,       \* history: the entry values of the latest successful apply
    pc,             \* position inside apply/atomic_write, "idle" between handlers
    content,        \* apply's local: the text to write
    tmp,            \* atomic_write's temp file: <<>> if absent, else <<its text>>
    failed,         \* the step of atomic_write that raised, "" if none
    cleanupErr,     \* whether os.remove raised in atomic_write's finally block
    before,         \* history: the text of the target when apply began
    observed,       \* what a concurrent reader last read during apply, <<>> if nothing
    ops,            \* history: the number of handler calls so far
    given,          \* codec runs: <<the entries handed to build_content>>, else <<>>
    round,          \* codec runs: the number of reloads of a built text
    raw,            \* parser runs: the line handed to _parse_entry_line
    entry           \* parser runs: <<what _parse_entry_line returned>>, else <<>>

sessionVars == <<file, heap, _entries, _snapshot, _state, _dirty, errorOccurred, exc, captured>>
writerVars == <<pc, content, tmp, failed, cleanupErr, before, observed>>
progVars == <<sessionVars, writerVars>>
codecVars == <<given, round, raw, entry>>
vars == <<progVars, ops, codecVars>>

NoExc == "NoExc"

\* one more handler call: counted while the bound allows it; ops < 0 means
\* that the calls are not counted
Counted == IF ops < 0 THEN UNCHANGED ops ELSE ops < MaxOps /\ ops' = ops + 1

\* what a whole handler, and what one step inside a handler, leaves alone
Handler == Counted /\ UNCHANGED codecVars
Step == UNCHANGED <<ops, codecVars>>

\* the list model held by HostsModel
model == [heap |-> heap, entries |-> _entries]

\* Object identity matters only up to renaming: the heap keeps the objects
\* reachable from _snapshot and _entries, numbered in that order.
Canon(h, es, sn) ==
    LET renumber(a) ==
            LET inSn(id) == \E i \in 1..Len(a.sn) : a.sn[i] = id
                fresh(id) == ~inSn(id)
                order == a.sn \o SelectSeq(a.es, fresh)
                pos(id) == CHOOSE i \in 1..Len(order) : order[i] = id
            IN [heap |-> [i \in 1..Len(order) |-> a.h[order[i]]],
                entries |-> [i \in 1..Len(a.es) |-> pos(a.es[i])],
                snapshot |-> [i \in 1..Len(a.sn) |-> pos(a.sn[i])]]
    IN Once([h |-> h, es |-> es, sn |-> sn], renumber)

\* the values a list of references denotes
Deref(h, ids) == [i \in 1..Len(ids) |-> h[ids[i]]]

\* self._snapshot = self._model.entries_snapshot(): new objects, appended to
\* the heap of m; the old snapshot's objects stay only if the list holds them
TakeSnapshot(m) ==
    LET copy(vals) ==
            Canon(m.heap \o vals, m.entries, [i \in 1..Len(vals) |-> Len(m.heap) + i])
    IN Once(entries_snapshot(m), copy)

(***************************************************************************)
(* Inputs.                                                                 *)
(***************************************************************************)
IP_LOOPBACK == <<":", ":", "1">>
HOST_A == <<"a">>

EnabledValues == BOOLEAN
IpValues == {<<>>, <<SP>>, IP_LOOPBACK, <<"x">>}
HostsValues == {<<>>, HOST_A}
Rows == -1..MaxRows

\* a file with ordinary text directly followed by a managed block of two
\* entries, and a file without markers whose last line is unterminated
FILE_BLOCK ==
    <<"x", NL>> \o BEGIN_MARKER \o <<NL>>
        \o IP_LOOPBACK \o <<TAB>> \o HOST_A \o <<NL>>
        \o <<HASH>> \o IP_LOOPBACK \o <<TAB>> \o HOST_A \o <<NL>>
        \o END_MARKER \o <<NL>>
FILE_PLAIN == <<"x">>
InitFiles == {FILE_BLOCK, FILE_PLAIN}

(***************************************************************************)
(* AppEngine.__init__: load the file, seed the list, take the snapshot.    *)
(***************************************************************************)
\* lines 328-331: the session a file holding text gives
AppEngineLoad(text) ==
    LET seed(ld) ==
            LET snap(m) ==
                    LET session(c) ==
                            [state |-> ld.state, heap |-> c.heap, entries |-> c.entries,
                             snapshot |-> c.snapshot, parsed |-> ld.entries]
                    IN Once(TakeSnapshot(m), session)
            IN Once(set_entries(ld.entries, [i \in 1..Len(ld.entries) |-> i]), snap)
    IN Once(load_managed_block(text), seed)

AppEngineInit(text) ==
    \E a \in {AppEngineLoad(text)} :
       /\ file = text
       /\ _state = a.state
       /\ heap = a.heap
       /\ _entries = a.entries
       /\ _snapshot = a.snapshot
       /\ _dirty = FALSE
       /\ errorOccurred = ""
       /\ exc = NoExc
       /\ captured = a.parsed

WriterIdle ==
    /\ pc = "idle"
    /\ content = <<>>
    /\ tmp = <<>>
    /\ failed = ""
    /\ cleanupErr = FALSE
    /\ before = <<>>
    /\ observed = <<>>

Session(n) ==
    /\ \E text \in InitFiles : AppEngineInit(text)
    /\ WriterIdle
    /\ ops = n
    /\ given = <<>>
    /\ round = 0
    /\ raw = <<>>
    /\ entry = <<>>

Init == Session(0)

InitUncounted == Session(-1)

(***************************************************************************)
(* Field edits: setEnabled / setIp / setHosts -> setData, and the changed  *)
(* signal that AppEngine._on_model_changed turns into _set_dirty(True).    *)
(***************************************************************************)
\* a variant that derives the dirty flag from the export and the snapshot
Edit_derived(row, role, value) ==
    \E r \in {setData(model, row, role, value)} :
    \E c \in {Canon(r.model.heap, r.model.entries, _snapshot)} :
       /\ Len(r.model.entries) <= MaxRows
       /\ heap' = c.heap
       /\ _entries' = c.entries
       /\ _snapshot' = c.snapshot
       /\ _dirty' = (entries_snapshot(r.model) # Deref(r.model.heap, _snapshot))
       /\ UNCHANGED <<file, _state, errorOccurred, exc, captured, writerVars>>

Edit(row, role, value) ==
    \E r \in {setData(model, row, role, value)} :
    \E c \in {Canon(r.model.heap, r.model.entries, _snapshot)} :
       /\ Len(r.model.entries) <= MaxRows
       /\ heap' = c.heap
       /\ _entries' = c.entries
       /\ _snapshot' = c.snapshot
       /\ _dirty' = (IF r.changed THEN TRUE ELSE _dirty)
       /\ UNCHANGED <<file, _state, errorOccurred, exc, captured, writerVars>>

setEnabled(row, enabled) ==
    /\ pc = "idle"
    /\ Handler
    /\ IF ~_row_ok(model, row)
       THEN UNCHANGED progVars
       ELSE Edit(row, "enabled", enabled)

setIp(row, ip) ==
    /\ pc = "idle"
    /\ Handler
    /\ IF ~_row_ok(model, row)
       THEN UNCHANGED progVars
       ELSE Edit(row, "ip", ip)

setHosts(row, hosts) ==
    /\ pc = "idle"
    /\ Handler
    /\ IF ~_row_ok(model, row)
       THEN UNCHANGED progVars
       ELSE Edit(row, "hosts", hosts)

(***************************************************************************)
(* AppEngine.revert.                                                       *)
(***************************************************************************)
revert ==
    /\ pc = "idle"
    /\ Handler
    /\ \E m \in {set_entries(heap, _snapshot)} :
       \E c \in {Canon(m.heap, m.entries, _snapshot)} :
          /\ heap' = c.heap
          /\ _entries' = c.entries
          /\ _snapshot' = c.snapshot
    /\ _dirty' = FALSE
    /\ UNCHANGED <<file, _state, errorOccurred, exc, captured, writerVars>>

(***************************************************************************)
(* AppEngine.apply as one handler.  w is how atomic_write ends, h how the  *)
(* pkexec helper ends when it is run.                                      *)
(***************************************************************************)
WriteResults == {"ok", "PermissionError", "OSError"}
HelperResults == {"zero", "nonzero", "FileNotFoundError"}

\* a variant that resets the dirty flag and keeps the old snapshot
Commit_stale ==
    /\ _dirty' = FALSE
    /\ UNCHANGED <<heap, _entries, _snapshot, captured>>

\* lines 386-387: the new snapshot and _set_dirty(False)
Commit ==
    \E c \in {TakeSnapshot(model)} :
       /\ heap' = c.heap
       /\ _entries' = c.entries
       /\ _snapshot' = c.snapshot
       /\ _dirty' = FALSE
       /\ captured' = entries_snapshot(model)

\* a variant that resets the dirty flag when the helper fails
apply_forgetful(w, h) ==
    /\ pc = "idle"
    /\ Handler
    /\ LET text == build_content(_state, entries_snapshot(model))
       IN IF w = "ok" \/ (w = "PermissionError" /\ h = "zero")
          THEN /\ file' = text
               /\ Commit
               /\ UNCHANGED <<_state, errorOccurred, exc, pc>>
          ELSE IF w = "PermissionError"
          THEN /\ errorOccurred' = (IF h = "FileNotFoundError"
                                    THEN "pkexec_missing" ELSE "pkexec_failed")
               /\ pc' = "notified"
               /\ _dirty' = FALSE
               /\ UNCHANGED <<file, heap, _entries, _snapshot, _state, exc, captured>>
          ELSE /\ exc' = w
               /\ pc' = "notified"
               /\ UNCHANGED <<file, heap, _entries, _snapshot, _state, _dirty, errorOccurred, captured>>
    /\ UNCHANGED <<content, tmp, failed, cleanupErr, before, observed>>

apply(w, h) ==
    /\ pc = "idle"
    /\ Handler
    /\ LET text == build_content(_state, entries_snapshot(model))
       IN IF w = "ok" \/ (w = "PermissionError" /\ h = "zero")
          THEN /\ file' = text
               /\ Commit
               /\ UNCHANGED <<_state, errorOccurred, exc, pc>>
          ELSE IF w = "PermissionError"
          THEN /\ errorOccurred' = (IF h = "FileNotFoundError"
                                    THEN "pkexec_missing" ELSE "pkexec_failed")
               /\ pc' = "notified"
               /\ UNCHANGED <<file, heap, _entries, _snapshot, _state, _dirty, exc, captured>>
          ELSE /\ exc' = w
               /\ pc' = "notified"
               /\ UNCHANGED <<file, heap, _entries, _snapshot, _state, _dirty, errorOccurred, captured>>
    /\ UNCHANGED <<content, tmp, failed, cleanupErr, before, observed>>

\* control is back in the Qt event loop: the signal has been delivered to the
\* user interface, or the exception has left the slot
event_loop ==
    /\ pc = "notified"
    /\ pc' = "idle"
    /\ errorOccurred' = ""
    /\ exc' = NoExc
    /\ UNCHANGED <<file, heap, _entries, _snapshot, _state, _dirty, captured>>
    /\ UNCHANGED <<content, tmp, failed, cleanupErr, before, observed>>
    /\ Step

(***************************************************************************)
(* AppEngine.apply step by step, for what a concurrent reader of the       *)
(* target can see: one action per system call of atomic_write.             *)
(***************************************************************************)
Half(text) == SubSeq(text, 1, Len(text) \div 2)

WriterReset ==
    /\ content' = <<>>
    /\ tmp' = <<>>
    /\ failed' = ""
    /\ cleanupErr' = FALSE
    /\ before' = <<>>
    /\ observed' = <<>>

\* a step of atomic_write raises r: inside the try block control goes to the
\* finally block
Raise(step, r) ==
    /\ exc' = r
    /\ failed' = step
    /\ pc' = "finally"

apply_begin ==
    /\ pc = "idle"
    /\ content' = build_content(_state, entries_snapshot(model))
    /\ before' = file
    /\ pc' = "stat"
    /\ UNCHANGED <<sessionVars>>
    /\ UNCHANGED <<tmp, failed, cleanupErr, observed>>
    /\ Step

\* the session read the target at load, so the target exists and st is set
os_stat ==
    /\ pc = "stat"
    /\ pc' = "mkstemp"
    /\ UNCHANGED <<sessionVars, content, tmp, failed, cleanupErr, before, observed>>
    /\ Step

\* mkstemp is outside the try block: its exception leaves atomic_write at once
mkstemp(r) ==
    /\ pc = "mkstemp"
    /\ IF r = "ok"
       THEN /\ tmp' = << <<>> >>
            /\ pc' = "fchown"
            /\ UNCHANGED <<exc, failed>>
       ELSE /\ exc' = r
            /\ failed' = "mkstemp"
            /\ pc' = "except"
            /\ UNCHANGED tmp
    /\ UNCHANGED <<file, heap, _entries, _snapshot, _state, _dirty, errorOccurred, captured>>
    /\ UNCHANGED <<content, cleanupErr, before, observed>>
    /\ Step

\* PermissionError of fchown is passed over
fchown(r) ==
    /\ pc = "fchown"
    /\ IF r \in {"ok", "PermissionError"}
       THEN pc' = "fchmod" /\ UNCHANGED <<exc, failed>>
       ELSE Raise("fchown", r)
    /\ UNCHANGED <<file, heap, _entries, _snapshot, _state, _dirty, errorOccurred, captured>>
    /\ UNCHANGED <<content, tmp, cleanupErr, before, observed>>
    /\ Step

fchmod(r) ==
    /\ pc = "fchmod"
    /\ IF r = "ok"
       THEN pc' = "write" /\ UNCHANGED <<exc, failed>>
       ELSE Raise("fchmod", r)
    /\ UNCHANGED <<file, heap, _entries, _snapshot, _state, _dirty, errorOccurred, captured>>
    /\ UNCHANGED <<content, tmp, cleanupErr, before, observed>>
    /\ Step

\* a variant that writes into the target in place
write_in_place(r, spill) ==
    /\ pc = "write"
    /\ file' = (IF spill THEN Half(content) ELSE <<>>)
    /\ tmp' = <<IF spill THEN Half(content) ELSE <<>> >>
    /\ IF r = "ok"
       THEN pc' = "flush" /\ UNCHANGED <<exc, failed>>
       ELSE Raise("write", r)
    /\ UNCHANGED <<heap, _entries, _snapshot, _state, _dirty, errorOccurred, captured>>
    /\ UNCHANGED <<content, cleanupErr, before, observed>>
    /\ Step

\* f.write(content): the text is buffered, and part of it may reach the temp
\* file already
write(r, spill) ==
    /\ pc = "write"
    /\ tmp' = <<IF spill THEN Half(content) ELSE <<>> >>
    /\ IF r = "ok"
       THEN pc' = "flush" /\ UNCHANGED <<exc, failed>>
       ELSE Raise("write", r)
    /\ UNCHANGED <<file, heap, _entries, _snapshot, _state, _dirty, errorOccurred, captured>>
    /\ UNCHANGED <<content, cleanupErr, before, observed>>
    /\ Step

flush(r) ==
    /\ pc = "flush"
    /\ IF r = "ok"
       THEN /\ tmp' = <<content>>
            /\ pc' = "fsync"
            /\ UNCHANGED <<exc, failed>>
       ELSE /\ Raise("flush", r)
            /\ UNCHANGED tmp
    /\ UNCHANGED <<file, heap, _entries, _snapshot, _state, _dirty, errorOccurred, captured>>
    /\ UNCHANGED <<content, cleanupErr, before, observed>>
    /\ Step

fsync(r) ==
    /\ pc = "fsync"
    /\ IF r = "ok"
       THEN pc' = "replace" /\ UNCHANGED <<exc, failed>>
       ELSE Raise("fsync", r)
    /\ UNCHANGED <<file, heap, _entries, _snapshot, _state, _dirty, errorOccurred, captured>>
    /\ UNCHANGED <<content, tmp, cleanupErr, before, observed>>
    /\ Step

\* os.replace: the temp file becomes the target in one step
os_replace(r) ==
    /\ pc = "replace"
    /\ IF r = "ok"
       THEN /\ file' = tmp[1]
            /\ tmp' = <<>>
            /\ pc' = "finally"
            /\ UNCHANGED <<exc, failed>>
       ELSE /\ Raise("replace", r)
            /\ UNCHANGED <<file, tmp>>
    /\ UNCHANGED <<heap, _entries, _snapshot, _state, _dirty, errorOccurred, captured>>
    /\ UNCHANGED <<content, cleanupErr, before, observed>>
    /\ Step

\* a variant without the os.remove
cleanup_none(r) ==
    /\ pc = "finally"
    /\ r = "ok"
    /\ pc' = (IF exc = NoExc THEN "commit" ELSE "except")
    /\ UNCHANGED <<sessionVars, content, tmp, failed, cleanupErr, before, observed>>
    /\ Step

\* the finally block: os.remove of a temp file that is still there; an
\* OSError of os.remove is passed over
cleanup(r) ==
    /\ pc = "finally"
    /\ IF tmp = <<>>
       THEN r = "ok" /\ UNCHANGED <<tmp, cleanupErr>>
       ELSE IF r = "ok"
       THEN tmp' = <<>> /\ UNCHANGED cleanupErr
       ELSE cleanupErr' = TRUE /\ UNCHANGED tmp
    /\ pc' = (IF exc = NoExc THEN "commit" ELSE "except")
    /\ UNCHANGED <<sessionVars, content, failed, before, observed>>
    /\ Step

\* a variant that sends every exception of atomic_write to the helper
except_any ==
    /\ pc = "except"
    /\ pc' = "pkexec"
    /\ exc' = NoExc
    /\ tmp' = <<>>
    /\ failed' = ""
    /\ cleanupErr' = FALSE
    /\ UNCHANGED <<content, before, observed>>
    /\ UNCHANGED <<file, heap, _entries, _snapshot, _state, _dirty, errorOccurred, captured>>
    /\ Step

\* line 357: PermissionError goes to the helper, anything else to the caller;
\* atomic_write is over, and what it recorded about its temp file goes with it
except_PermissionError ==
    /\ pc = "except"
    /\ IF exc = "PermissionError"
       THEN /\ pc' = "pkexec"
            /\ exc' = NoExc
            /\ tmp' = <<>>
            /\ failed' = ""
            /\ cleanupErr' = FALSE
            /\ UNCHANGED <<content, before, observed>>
       ELSE /\ pc' = "notified"
            /\ WriterReset
            /\ UNCHANGED exc
    /\ UNCHANGED <<file, heap, _entries, _snapshot, _state, _dirty, errorOccurred, captured>>
    /\ Step

\* subprocess.run of pkexec: mv puts the text in place in one step
pkexec(h) ==
    /\ pc = "pkexec"
    /\ IF h = "zero"
       THEN /\ file' = content
            /\ pc' = "commit"
            /\ UNCHANGED <<errorOccurred, content, tmp, failed, cleanupErr, before, observed>>
       ELSE /\ errorOccurred' = (IF h = "FileNotFoundError"
                                 THEN "pkexec_missing" ELSE "pkexec_failed")
            /\ pc' = "notified"
            /\ WriterReset
            /\ UNCHANGED file
    /\ UNCHANGED <<heap, _entries, _snapshot, _state, _dirty, exc, captured>>
    /\ Step

commit ==
    /\ pc = "commit"
    /\ Commit
    /\ pc' = "idle"
    /\ WriterReset
    /\ UNCHANGED <<file, _state, errorOccurred, exc>>
    /\ Step

\* another process reads the target while apply runs
ReaderRead ==
    /\ pc \notin {"idle", "notified"}
    /\ observed' = <<file>>
    /\ UNCHANGED <<sessionVars, pc, content, tmp, failed, cleanupErr, before>>
    /\ Step

(***************************************************************************)
(* Specifications.                                                         *)
(***************************************************************************)
\* the session: up to MaxOps field edits, applies and reverts, as whole handlers
Next ==
    \/ \E row \in Rows, v \in EnabledValues : setEnabled(row, v)
    \/ \E row \in Rows, v \in IpValues : setIp(row, v)
    \/ \E row \in Rows, v \in HostsValues : setHosts(row, v)
    \/ \E w \in WriteResults, h \in HelperResults : apply(w, h)
    \/ revert
    \/ event_loop

Spec == Init /\ [][Next]_vars

\* field edits only, any number of them, whitespace-only values included
EditNext ==
    \/ \E row \in Rows, v \in EnabledValues : setEnabled(row, v)
    \/ \E row \in Rows, v \in IpValues : setIp(row, v)
    \/ \E row \in Rows, v \in HostsValues \cup {<<SP>>} : setHosts(row, v)

SpecEdits == InitUncounted /\ [][EditNext]_vars

\* field edits and reverts, any number of them
RevertNext ==
    \/ \E row \in Rows, v \in EnabledValues : setEnabled(row, v)
    \/ \E row \in Rows, v \in {<<>>, IP_LOOPBACK} : setIp(row, v)
    \/ \E row \in Rows, v \in HostsValues : setHosts(row, v)
    \/ revert

SpecRevert == InitUncounted /\ [][RevertNext]_vars

\* apply step by step with a concurrent reader of the target
WriteNext ==
    \/ \E v \in EnabledValues : setEnabled(0, v)
    \/ apply_begin
    \/ os_stat
    \/ \E r \in WriteResults : mkstemp(r)
    \/ \E r \in WriteResults : fchown(r)
    \/ \E r \in WriteResults : fchmod(r)
    \/ \E r \in WriteResults, spill \in BOOLEAN : write(r, spill)
    \/ \E r \in WriteResults : flush(r)
    \/ \E r \in WriteResults : fsync(r)
    \/ \E r \in WriteResults : os_replace(r)
    \/ \E r \in {"ok", "OSError"} : cleanup(r)
    \/ except_PermissionError
    \/ \E h \in HelperResults : pkexec(h)
    \/ commit
    \/ event_loop
    \/ ReaderRead

SpecWrite == InitUncounted /\ [][WriteNext]_vars

(***************************************************************************)
(* The codec on its own: every text of up to MaxLines lines is loaded,     *)
(* build_content is applied to the loaded state and a list of entries, and *)
(* the built text is loaded again.                                         *)
(***************************************************************************)
ENTRY_LINE == IP_LOOPBACK \o <<TAB>> \o HOST_A
LineContents == {BEGIN_MARKER, END_MARKER, <<"x">>, <<>>, ENTRY_LINE}
Terminators == {<<NL>>, <<CR, NL>>, <<CR>>, <<FF>>}
Lines == {c \o t : c \in LineContents, t \in Terminators}

\* the texts of exactly n terminated lines
RECURSIVE Bodies(_)
Bodies(n) ==
    IF n = 0 THEN {<<>>}
    ELSE {b \o l : b \in Bodies(n - 1), l \in Lines}

\* the texts of up to max lines; the last line may lack its terminator
Texts(max) ==
    UNION {{b \o c : b \in Bodies(n), c \in LineContents} : n \in 0..(max - 1)}
        \cup UNION {Bodies(n) : n \in 0..max}

E_ON == HostEntry(TRUE, IP_LOOPBACK, HOST_A)
E_OFF == HostEntry(FALSE, IP_LOOPBACK, HOST_A)
WellFormedLists == {<<>>, <<E_OFF, E_ON>>}

InitCodec ==
    /\ \E text \in Texts(MaxLines) : AppEngineInit(text)
    /\ WriterIdle
    /\ ops = 0
    /\ given = <<>>
    /\ round = 0
    /\ raw = <<>>
    /\ entry = <<>>

codec_build(es) ==
    /\ pc = "idle"
    /\ content' = build_content(_state, es)
    /\ given' = <<es>>
    /\ pc' = "built"
    /\ UNCHANGED <<sessionVars, tmp, failed, cleanupErr, before, observed, ops, round, raw, entry>>

\* the built text is in the file and the application starts again
codec_reload ==
    /\ pc = "built"
    /\ round < MaxRounds
    /\ \E a \in {AppEngineLoad(content)} :
          /\ file' = content
          /\ _state' = a.state
          /\ heap' = a.heap
          /\ _entries' = a.entries
          /\ _snapshot' = a.snapshot
          /\ captured' = a.parsed
    /\ before' = file
    /\ pc' = "reloaded"
    /\ round' = round + 1
    /\ UNCHANGED <<_dirty, errorOccurred, exc, content, tmp, failed, cleanupErr, observed, ops, given, raw, entry>>

CodecNext ==
    \/ codec_build(captured)
    \/ \E es \in WellFormedLists : codec_build(es)
    \/ codec_reload

SpecCodec == InitCodec /\ [][CodecNext]_vars

(***************************************************************************)
(* The entry-line parser on its own: every line of up to MaxPieces pieces  *)
(* is handed to _parse_entry_line.                                         *)
(***************************************************************************)
IP_QUAD == <<"1", ".", "2", ".", "3", ".", "4">>
HOSTS_XX == <<"x", TAB, SP, "x">>
Pieces == {<<SP>>, <<HASH>>, IP_LOOPBACK, IP_QUAD, <<"1", "2">>, <<"x">>, HOSTS_XX}

\* the lines of exactly n pieces
RECURSIVE PieceLines(_)
PieceLines(n) ==
    IF n = 0 THEN {<<>>}
    ELSE {l \o p : l \in PieceLines(n - 1), p \in Pieces}

EntryLines(max) == UNION {PieceLines(n) : n \in 0..max}

InitLine ==
    /\ AppEngineInit(FILE_PLAIN)
    /\ WriterIdle
    /\ ops = 0
    /\ given = <<>>
    /\ round = 0
    /\ raw \in EntryLines(MaxPieces)
    /\ entry = <<>>

\* line 88: e = self._parse_entry_line(ln)
call_parse_entry_line ==
    /\ entry = <<>>
    /\ entry' = <<parse_entry_line(raw)>>
    /\ UNCHANGED <<progVars, ops, given, round, raw>>

LineNext == call_parse_entry_line

SpecLine == InitLine /\ [][LineNext]_vars

(***************************************************************************)
(* Properties.                                                             *)
(***************************************************************************)
\* the export of the live list and the values of lastAppliedSnapshot
Export == entries_snapshot(model)
Snapshot == Deref(heap, _snapshot)
Live == Deref(heap, _entries)

\* a string trims to empty: it holds nothing but whitespace
OnlySpace(str) == \A i \in 1..Len(str) : IsSpace(str[i])
Blank(e) == OnlySpace(e.ip) /\ OnlySpace(e.hosts)

\* C1: after any edits, applies and earlier reverts, revert leaves the export
\* equal to the entries captured at the latest successful apply (or at load)
\* and leaves the session Clean.
C1_RevertRestoresCaptured ==
    [][revert => (Export' = captured' /\ ~_dirty')]_vars

\* C2: after any sequence of field edits the list has exactly one blank row,
\* the last one, and the export holds no blank row.
C2_OneTrailingBlank ==
    /\ Len(Live) >= 1
    /\ \A i \in 1..Len(Live) : Blank(Live[i]) <=> i = Len(Live)
    /\ \A i \in 1..Len(Export) : ~Blank(Export[i])

\* three rows after edits, the last one blank by a whitespace-only ip, and a
\* row above it that holds only whitespace-free hosts
C2_Witness ==
    /\ _dirty
    /\ Len(Live) = 3
    /\ Live[3].ip = <<SP>>
    /\ Live[1].ip = <<>>
    /\ Live[1].hosts = HOST_A

\* C10: whenever the session is Clean the export equals lastAppliedSnapshot.
C10_CleanMeansEqual ==
    ~_dirty => Export = Snapshot

\* a line without its terminator: LF, CRLF, CR or form feed
LineContent(l) ==
    IF Len(l) >= 2 /\ l[Len(l) - 1] = CR /\ l[Len(l)] = NL THEN SubSeq(l, 1, Len(l) - 2)
    ELSE IF Len(l) >= 1 /\ l[Len(l)] \in {NL, CR, FF} THEN SubSeq(l, 1, Len(l) - 1)
    ELSE l

LinesOf(text) == splitlines(text)

NoMarkerLine(text) ==
    \A i \in 1..Len(LinesOf(text)) :
        LineContent(LinesOf(text)[i]) \notin {BEGIN_MARKER, END_MARKER}

\* the normalization before the block, on the text that precedes the block:
\* a terminator after a last line that lacks one (read as "does not end in
\* \n", or as "ends in no terminator at all"), then one blank line after a
\* last line that is not blank
Normalizations(pre) ==
    IF pre = <<>> THEN {<<>>}
    ELSE LET ls == LinesOf(pre)
             last == ls[Len(ls)]
             sep == IF ~OnlySpace(last) THEN <<NL>> ELSE <<>>
         IN {pre \o (IF Last(pre) # NL THEN <<NL>> ELSE <<>>) \o sep,
             pre \o (IF LineContent(last) = last THEN <<NL>> ELSE <<>>) \o sep}

\* render(parse(text)) of a text, with the parsed entries
RenderOfParse(text) ==
    build_content(load_managed_block(text).state, load_managed_block(text).entries)

\* build_content has been applied to the state and the entries parsed from
\* the text first given
BuiltUnchanged == pc = "built" /\ round = 0 /\ given = <<captured>>

\* C3: for a file text with neither marker line, render(parse(text)) is
\* exactly the text.
C3_RoundTripExact ==
    (BuiltUnchanged /\ NoMarkerLine(file)) => content = file

\* the entry line format on disk: [#]IP<tab>HOST[ HOST...]
HostList(h) ==
    /\ h # <<>>
    /\ \A i \in 1..Len(h) : h[i] \notin {TAB, NL, CR, FF, HASH}
    /\ h[1] # SP /\ h[Len(h)] # SP
    /\ \A i \in 1..(Len(h) - 1) : ~(h[i] = SP /\ h[i + 1] = SP)

OnDiskEntryLine(c) ==
    LET body == IF c # <<>> /\ c[1] = HASH THEN Tail(c) ELSE c
        tabs == {i \in 1..Len(body) : body[i] = TAB}
    IN /\ Cardinality(tabs) = 1
       /\ LET t == CHOOSE i \in tabs : TRUE
          IN /\ IP_RE(SubSeq(body, 1, t - 1))
             /\ HostList(SubSeq(body, t + 1, Len(body)))

\* the first begin marker line and the first end marker line after it, 0 if none
FirstBegin(ls) ==
    LET hit == {i \in 1..Len(ls) : LineContent(ls[i]) = BEGIN_MARKER}
    IN IF hit = {} THEN 0 ELSE CHOOSE i \in hit : \A j \in hit : i <= j

FirstEndAfter(ls, b) ==
    LET hit == {j \in (b + 1)..Len(ls) : LineContent(ls[j]) = END_MARKER}
    IN IF hit = {} THEN 0 ELSE CHOOSE j \in hit : \A k \in hit : j <= k

ValidBlockFile(text) ==
    LET ls == LinesOf(text)
        b == FirstBegin(ls)
        e == FirstEndAfter(ls, b)
    IN /\ b > 0
       /\ e > 0
       /\ \A k \in (b + 1)..(e - 1) : OnDiskEntryLine(LineContent(ls[k]))

\* the texts that are the given text with the normalization before its block
NormalizedBeforeBlock(text) ==
    LET ls == LinesOf(text)
        b == FirstBegin(ls)
    IN {pre \o Join(SubSeq(ls, b, Len(ls))) :
            pre \in Normalizations(Join(SubSeq(ls, 1, b - 1)))}

\* C4: for a file with a managed block of on-disk entry lines,
\* render(parse(text)) is the text but for the normalization before the block,
\* and a second render(parse(.)) changes nothing more.
C4_Idempotent ==
    (BuiltUnchanged /\ ValidBlockFile(file)) =>
        /\ content \in NormalizedBeforeBlock(file)
        /\ RenderOfParse(content) = content

\* C5: after load, render of a well-formed list E and reload, parse gives
\* exactly E, the post of before, and the pre of before with the
\* normalization applied.
C5_OutsideSurvives ==
    [][codec_reload =>
          /\ captured' = given[1]
          /\ _state'.post_lines = _state.post_lines
          /\ Join(_state'.pre_lines) \in Normalizations(Join(_state.pre_lines))]_vars

\* the steps of atomic_write before the rename
BeforeRename == {"mkstemp", "fchown", "fchmod", "write", "flush", "fsync"}

\* atomic_write has raised from a step before the rename
RaisedBeforeRename == pc = "except" /\ failed \in BeforeRename

\* C6 as stated: if a step before the rename fails, the target holds what it
\* held before the call and the temp file of the call is gone.
C6_FailureLeavesNoTemp ==
    RaisedBeforeRename => (file = before /\ tmp = <<>>)

\* C6 amended: if a step before the rename fails, the target holds what it
\* held before the call, and the temp file of the call is gone unless
\* os.remove failed on it.
C6_FailureKeepsTarget ==
    RaisedBeforeRename => (file = before /\ (tmp = <<>> \/ cleanupErr))

\* flush failed with half of a new text in the temp file, which was removed
C6_Witness ==
    /\ RaisedBeforeRename
    /\ failed = "flush"
    /\ tmp = <<>>
    /\ ~cleanupErr
    /\ content # before

\* C7: a reader of the target during atomic_write sees the whole old text or
\* the whole new text, whether the write succeeds or fails.
C7_ReaderSeesOldOrNew ==
    /\ observed # <<>> => observed[1] \in {before, content}
    /\ pc \notin {"idle", "notified"} => file \in {before, content}

\* the reader read the target while the temp file held half of a new text
C7_Witness ==
    /\ pc = "flush"
    /\ content # before
    /\ tmp = <<Half(content)>>
    /\ observed = <<before>>

\* C8: when atomic_write fails with PermissionError and the helper is missing
\* or exits nonzero, apply emits errorOccurred and changes neither the dirty
\* flag nor lastAppliedSnapshot nor the live list.
C8_HelperFailureChangesNothing ==
    [][(\E h \in {"nonzero", "FileNotFoundError"} : apply("PermissionError", h)) =>
          /\ errorOccurred' # ""
          /\ _dirty' = _dirty
          /\ Snapshot' = Snapshot
          /\ Live' = Live]_vars

\* a Dirty session after the helper exited nonzero
C8_Witness ==
    /\ pc = "notified"
    /\ errorOccurred = "pkexec_failed"
    /\ _dirty
    /\ Export # Snapshot

\* a setter call that changes the value of a field
FieldEdit == Live' # Live /\ EditNext

\* apply ends in success: the direct write, or the helper exiting 0 (the
\* file it leaves is compared first, which no other handler writes)
ApplySucceeds ==
    /\ file' = build_content(_state, Export)
    /\ \/ \E h \in HelperResults : apply("ok", h)
       \/ apply("PermissionError", "zero")

\* C9: the session is Clean after load with lastAppliedSnapshot the entries
\* parsed at load; from Clean a field edit moves it to Dirty; a successful
\* apply makes lastAppliedSnapshot the export of that moment and moves it to
\* Clean.
C9_SessionStateMachine ==
    /\ (~_dirty /\ Snapshot = load_managed_block(file).entries)
    /\ [][/\ (~_dirty /\ FieldEdit) => _dirty'
          /\ ApplySucceeds => (Snapshot' = Export /\ ~_dirty')]_vars

\* Clean after the helper wrote a list that an edit had changed
C9_Witness ==
    /\ pc = "idle"
    /\ ~_dirty
    /\ ops = 2
    /\ Snapshot = Export
    /\ Snapshot # load_managed_block(FILE_BLOCK).entries
    /\ Len(Snapshot) = 2

\* the block of a text as the lines of the file give it: the first line whose
\* content is the begin marker and the first line after it whose content is
\* the end marker, 0 where there is none
BlockBegin(text) == FirstBegin(LinesOf(text))
BlockEnd(text) ==
    IF BlockBegin(text) = 0 THEN 0
    ELSE FirstEndAfter(LinesOf(text), BlockBegin(text))

\* C11: the block lies between the first begin marker line and the first end
\* marker line after it: pre is the lines before, post the lines after,
\* entries the parseable lines between, in order; without such a pair there
\* are no entries, pre is every line of the file and post is empty.
C11_BlockLocation ==
    LET ls == LinesOf(file)
        b == BlockBegin(file)
        e == BlockEnd(file)
    IN IF b > 0 /\ e > 0
       THEN /\ captured = parse_lines(SubSeq(ls, b + 1, e - 1))
            /\ _state = HostsFileState(SubSeq(ls, 1, b - 1), SubSeq(ls, e + 1, Len(ls)))
       ELSE /\ captured = <<>>
            /\ _state = HostsFileState(ls, <<>>)

\* C17: a line whose content without its terminator is a marker is taken as
\* that marker whatever its terminator: with a begin marker line and an end
\* marker line after it, pre ends where the first begin marker line starts
\* and post starts after the first end marker line that follows.
C17_MarkerAnyTerminator ==
    (BlockBegin(file) > 0 /\ BlockEnd(file) > 0) =>
        /\ Len(_state.pre_lines) = BlockBegin(file) - 1
        /\ Len(_state.post_lines) = Len(LinesOf(file)) - BlockEnd(file)

\* the parts of a line as the rejection rules name them: the trimmed line,
\* whether it starts with '#', the text that is left of an inline comment
\* once a leading '#' is taken off, and the tokens of that text
Trimmed(l) == Strip(l)
StartsWithHash(l) == Trimmed(l) # <<>> /\ Trimmed(l)[1] = HASH
Uncommented(l) ==
    LET body == IF StartsWithHash(l) THEN Tail(Trimmed(l)) ELSE Trimmed(l)
        hs == {i \in 1..Len(body) : body[i] = HASH}
    IN IF hs = {} THEN body
       ELSE SubSeq(body, 1, (CHOOSE i \in hs : \A j \in hs : i <= j) - 1)
Tokens(l) == split(Uncommented(l))

\* four dot-separated groups of 1-3 digits
FourGroups(t) ==
    \E a, b, c \in 1..Len(t) :
       /\ a < b /\ b < c
       /\ \A i \in 1..Len(t) : IF i \in {a, b, c} THEN t[i] = "." ELSE IsDigit(t[i])
       /\ {a - 1, b - a - 1, c - b - 1, Len(t) - c} \subseteq 1..3

\* only hex digits and colons
HexColons(t) == t # <<>> /\ \A i \in 1..Len(t) : IsHexOrColon(t[i])

Rejected(l) ==
    \/ OnlySpace(l)
    \/ StartsWithHash(l) /\ OnlySpace(Tail(Trimmed(l)))
    \/ OnlySpace(Uncommented(l))
    \/ Len(Tokens(l)) < 2
    \/ ~(FourGroups(Tokens(l)[1]) \/ HexColons(Tokens(l)[1]))

\* C12: _parse_entry_line returns no entry for a line that is blank, only
\* '#', empty without its inline comment, of fewer than two tokens or with a
\* first token of neither address shape; for any other line it returns the
\* first token as ip, the other tokens joined by single spaces as hosts, and
\* enabled false exactly when the trimmed line starts with '#'.
C12_EntryLine ==
    entry # <<>> =>
        entry[1] = IF Rejected(raw) THEN None
                   ELSE HostEntry(~StartsWithHash(raw), Tokens(raw)[1],
                                  JoinSp(Tail(Tokens(raw))))

\* a disabled line with two hosts a tab and a space apart, parsed
C12_Witness ==
    /\ raw = <<HASH>> \o IP_QUAD \o <<SP>> \o HOSTS_XX
    /\ entry = <<HostEntry(FALSE, IP_QUAD, <<"x", SP, "x">>)>>

\* a file as in the end-to-end example: ordinary text whose last line is not
\* blank, directly followed by a block of on-disk entry lines, the first of
\* them enabled
ExampleFile(text) ==
    LET ls == LinesOf(text)
        b == BlockBegin(text)
    IN /\ ValidBlockFile(text)
       /\ b > 1
       /\ ~OnlySpace(ls[b - 1])
       /\ BlockEnd(text) > b + 1
       /\ ls[b + 1][1] # HASH

\* the first entry of the list is disabled
FirstDisabled == \E es \in {Export} : es # <<>> /\ ~es[1].enabled

\* the session has loaded such a file and the list is the loaded one with
\* its first entry disabled
LoadedFirstDisabled ==
    /\ \E ld \in {load_managed_block(file)} :
          /\ _state = ld.state
          /\ Export = [ld.entries EXCEPT ![1].enabled = FALSE]
    /\ ExampleFile(file)

\* the text with '#' put before its first entry line, and the same with a
\* blank line put before the begin marker as well
HashedFirst(text) ==
    LET ls == LinesOf(text)
        b == BlockBegin(text)
    IN Join(SubSeq(ls, 1, b)) \o <<HASH>> \o Join(SubSeq(ls, b + 1, Len(ls)))

HashedFirstSeparated(text) ==
    LET ls == LinesOf(text)
        b == BlockBegin(text)
    IN Join(SubSeq(ls, 1, b - 1)) \o <<NL>> \o ls[b] \o <<HASH>>
           \o Join(SubSeq(ls, b + 1, Len(ls)))

\* C13 as stated: after loading the example file and disabling the first
\* entry, the rendered file is the loaded file with '#' before the first
\* entry line and no other difference.
C13_OnlyHashAdded ==
    [][(FirstDisabled /\ ApplySucceeds /\ LoadedFirstDisabled) =>
          file' = HashedFirst(file)]_vars

\* C13 amended: the rendered file is the loaded file with '#' before the
\* first entry line and one blank line before the begin marker.
C13_HashAndSeparatorAdded ==
    [][(FirstDisabled /\ ApplySucceeds /\ LoadedFirstDisabled) =>
          file' = HashedFirstSeparated(file)]_vars

\* the example file was loaded, its first entry disabled and the list applied
C13_Witness ==
    /\ ops = 2
    /\ ~_dirty
    /\ file = HashedFirstSeparated(FILE_BLOCK)
    /\ ~Snapshot[1].enabled

\* what a field edit of row (from 0) does to the rows, with Was the rows
\* before it and Edited the row with its new field value: a row above the
\* last one that the edit makes blank is gone, a last row that the edit makes
\* non-blank is followed by one fresh blank row, and in both cases the other
\* rows are the same, in the same order
PrunedOrExtended(row, role, value) ==
    LET Was == Live
        n == Len(Was)
        Edited == [Was[row + 1] EXCEPT ![role] = value]
    IN /\ (row + 1 < n /\ ~Blank(Was[row + 1]) /\ Blank(Edited)) =>
              Live' = SubSeq(Was, 1, row) \o SubSeq(Was, row + 2, n)
       /\ (row + 1 = n /\ Blank(Was[n]) /\ ~Blank(Edited)) =>
              Live' = SubSeq(Was, 1, n - 1)
                          \o <<Edited, HostEntry(TRUE, <<>>, <<>>)>>

C15_DirtyResetOnlyByApplyOrRevert ==
    [][(_dirty /\ ~_dirty') => (ApplySucceeds \/ revert)]_vars

\* still Dirty after two edits, the second of which brought the export back
\* to the applied entries
C15_Witness ==
    /\ ops = 2
    /\ _dirty
    /\ Export = captured
    /\ Export = Snapshot
    /\ Export # <<>>

\* C16: when the primary write fails with an I/O error that is not a
\* permission error, the helper is not run and no success is claimed: the
\* exception reaches the caller, the target holds what it held before the
\* apply, and from the start of the apply to its end neither the dirty flag
\* nor lastAppliedSnapshot changes.
C16_OtherFailureReachesCaller ==
    /\ [](exc = "OSError" =>
             /\ pc \in {"finally", "except", "notified"}
             /\ errorOccurred = ""
             /\ (pc # "notified" => file = before))
    /\ [][/\ (pc = "except" /\ exc = "OSError" /\ pc' # pc) =>
                 (pc' = "notified" /\ exc' = "OSError" /\ file' = file)
          /\ pc' # "idle" => (_dirty' = _dirty /\ Snapshot' = Snapshot)]_vars

\* the write of an edited list failed with an I/O error: the caller has the
\* exception, the session is still Dirty and the target still lacks the edit
C16_Witness ==
    /\ pc = "notified"
    /\ exc = "OSError"
    /\ errorOccurred = ""
    /\ _dirty
    /\ Export # Snapshot
    /\ file # build_content(_state, Export)

\* C18: lastAppliedSnapshot changes only in a successful apply: no field
\* edit and no revert changes its length, its order or a value in it.
C18_SnapshotChangedOnlyByApply ==
    [][Snapshot' # Snapshot => ApplySucceeds]_vars

\* C19: between handlers, after any field edits, applies and reverts, the
\* live list has exactly one blank row and it is the last row.
C19_WellFormedInSession ==
    pc = "idle" =>
        /\ Live # <<>>
        /\ Blank(Live[Len(Live)])
        /\ \A i \in 1..(Len(Live) - 1) : ~Blank(Live[i])

\* C20: after a successful apply, parsing the written content gives the
\* entries of lastAppliedSnapshot, in order and value by value.
C20_PersistedIsBaseline ==
    [][ApplySucceeds => load_managed_block(file').entries = Snapshot']_vars

====
